---- MODULE Spec2Model ----
(***************************************************************************)
(* Model of scripts/cli_chat.py: the model-name resolver (resolve_model),  *)
(* the streaming transcript reader (stream_response), the batch reader     *)
(* (nonstream_response) and the interactive loop (interactive).            *)
(*                                                                         *)
(* Text is a sequence of one-character strings.  An optional value (a      *)
(* Python value that may be None, or a dict key that may be missing) is a  *)
(* sequence of length 0 or 1: None is << >>, Some(x) is << x >>.           *)
(***************************************************************************)
EXTENDS Integers, Sequences, FiniteSets, TLC

VARIABLES
    pc,                 \* position of the main thread
    messages,           \* interactive(): the transcript
    stream,             \* interactive(): the stream argument (not --no-stream)
    stop_loading,       \* stop_loading[t]: the threading.Event of turn t is set
    spin,               \* spin[t]: position of the show_loading thread of turn t
    model,              \* interactive(): the current model
    new_model,          \* interactive(): the argument of /model
    last_cmd,           \* history: what the last line read at the prompt was
    pre_model,          \* history: the model when the last input was read
    body,               \* the lines resp.iter_lines() will deliver, in order
    pos,                \* number of lines of body already taken by the loop
    assistant_buf,      \* stream_response: list of text deltas
    eval_count,         \* stream_response: last eval_count seen
    prompt_eval_count,  \* stream_response: last prompt_eval_count seen
    interrupted,        \* KeyboardInterrupt was caught in the read loop
    failure,            \* transport failure of the turn just run, "none" once
                        \* the next input is read
    exit_code,          \* process exit status; -1 while running
    turns,              \* number of user messages sent so far
    pre_turn,           \* history: transcript when the turn's input was read
    pre_call,           \* history: transcript when the reader was called
    requested_model,    \* resolve_model argument
    local,              \* what list_local_models returned
    interactive_flag,   \* resolve_model argument `interactive`
    cands,              \* the candidate list shown at the prompt
    strategy,           \* the strategy whose list is in cands
    answer,             \* the raw line typed at the prompt
    prompts,            \* number of input() calls made by resolve_model
    result,             \* resolve_model return value (optional name)
    exc                 \* exception raised out of resolve_model, "" if none

vars == << pc, messages, stream, stop_loading, spin, model, new_model,
           last_cmd, pre_model, body, pos, assistant_buf,
           eval_count, prompt_eval_count, interrupted, failure, exit_code,
           turns, pre_turn, pre_call, requested_model, local,
           interactive_flag, cands, strategy, answer, prompts, result, exc >>

cmdVars == << model, new_model, last_cmd, pre_model >>
loopVars == << messages, stream, stop_loading, spin, model, new_model,
               last_cmd, pre_model, failure, exit_code, turns, pre_turn >>
readerVars == << body, pos, assistant_buf, eval_count, prompt_eval_count,
                 interrupted, pre_call >>
resolverVars == << requested_model, local, interactive_flag, cands, strategy,
                   answer, prompts, result, exc >>

----------------------------------------------------------------------------
(* Bounds of the model *)

MaxLines == 3       \* longest response body explored for the reader alone
MaxLoopLines == 1   \* longest response body explored inside the loop
MaxTurns == 2       \* user messages per session
MaxLocal == 3       \* longest list of local models

----------------------------------------------------------------------------
(* Text and optional values *)

None == << >>
Some(x) == << x >>

Whitespace == {" ", "\n"}

RECURSIVE lstrip(_)
lstrip(s) ==
    IF s = << >> THEN s
    ELSE IF Head(s) \in Whitespace THEN lstrip(Tail(s)) ELSE s

RECURSIVE rstrip(_)
rstrip(s) ==
    IF s = << >> THEN s
    ELSE IF s[Len(s)] \in Whitespace THEN rstrip(SubSeq(s, 1, Len(s) - 1))
    ELSE s

\* str.strip()
strip(s) == rstrip(lstrip(s))

\* ''.join(parts)
RECURSIVE join(_)
join(parts) ==
    IF parts = << >> THEN << >> ELSE Head(parts) \o join(Tail(parts))

SeqsUpTo(S, n) == UNION { [1..k -> S] : k \in 0..n }

\* x in lst, for a list
in_list(x, lst) == \E i \in 1..Len(lst) : lst[i] = x

\* model names
LATEST == <<":", "l", "a", "t", "e", "s", "t">>
L3 == <<"l", "l", "a", "m", "a", "3">>

----------------------------------------------------------------------------
(* Lines of a response body.                                               *)
(*   kind     "blank": an empty line; "bad": text json.loads rejects;      *)
(*            "obj": text json.loads decodes to an object                  *)
(*   sse      the line starts with the "data:" framing marker              *)
(*   message  "absent": no 'message' key; "other": 'message' is no dict;   *)
(*            "dict": 'message' is a dict                                  *)
(*   content  message.get('content') when message is a dict                *)
(*   has_response, response   'response' in obj, obj.get('response')       *)
(*   done, eval_count, prompt_eval_count   optional fields of the object   *)

Line(k, s, m, c, hr, r, d, e, p) ==
    [kind |-> k, sse |-> s, message |-> m, content |-> c, has_response |-> hr,
     response |-> r, done |-> d, eval_count |-> e, prompt_eval_count |-> p]

Blank == Line("blank", FALSE, "absent", None, FALSE, None, None, None, None)
Bad(s) == Line("bad", s, "absent", None, FALSE, None, None, None, None)
Obj(s, m, c, hr, r, d, e, p) == Line("obj", s, m, c, hr, r, d, e, p)

Texts == { <<"a">>, <<" ">> }
ResponseText == <<"b">>

\* {"message": {"content": t}} with and without "done": true
TextFragments ==
    { Obj(FALSE, "dict", Some(t), FALSE, None, d, None, None) :
        t \in Texts, d \in {None, Some(TRUE)} }

OtherFragments ==
    { \* data: {"message": {"content": "a"}}
      Obj(TRUE, "dict", Some(<<"a">>), FALSE, None, None, None, None),
      \* {"message": {}, "response": "b"}
      Obj(FALSE, "dict", None, TRUE, Some(ResponseText), None, None, None),
      \* {"message": "x", "response": "b"}
      Obj(FALSE, "other", None, TRUE, Some(ResponseText), None, None, None),
      \* {"response": "b", "done": false, "eval_count": 2}
      Obj(FALSE, "absent", None, TRUE, Some(ResponseText), Some(FALSE),
          Some(2), None),
      \* {"response": null}
      Obj(FALSE, "absent", None, TRUE, None, None, None, None),
      \* {"done": true, "eval_count": 5, "prompt_eval_count": 3}
      Obj(FALSE, "absent", None, FALSE, None, Some(TRUE), Some(5), Some(3)) }

Objects == TextFragments \cup OtherFragments
Lines == {Blank, Bad(FALSE), Bad(TRUE)} \cup Objects

Bodies == SeqsUpTo(Lines, MaxLines)

\* the lines of the bodies explored inside the loop: an undecodable line,
\* two text fragments, and a text fragment that ends the stream
LoopLines ==
    { Bad(FALSE) } \cup
    { Obj(FALSE, "dict", Some(t), FALSE, None, None, None, None) : t \in Texts }
    \cup { Obj(FALSE, "dict", Some(<<"a">>), FALSE, None, Some(TRUE), None, None) }
LoopBodies == SeqsUpTo(LoopLines, MaxLoopLines)

----------------------------------------------------------------------------
(* stream_response, one line of the read loop *)

\* lines 384-390: strip, drop the "data:" marker, json.loads; the decoded
\* object when there is one
Decode(line) == IF line.kind = "obj" THEN Some(line) ELSE None

\* lines 398-432: the text the object adds to assistant_buf, if any
Delta(obj) ==
    IF obj.message = "dict" THEN obj.content
    ELSE IF obj.has_response THEN obj.response
    ELSE None

\* line 434: obj.get('done') or obj.get('done', False) is True
IsDone(obj) == obj.done # None /\ obj.done[1] = TRUE

\* lines 393-396
Overwrite(old, field) == IF field # None THEN field[1] ELSE old

\* Finalize without the trim of line 441
Finalize_untrimmed(msgs, buf) ==
    LET full == join(buf)
    IN  IF strip(full) # << >>
        THEN Append(msgs, [role |-> "assistant", content |-> full])
        ELSE msgs

\* lines 441-443: the transcript after the buffer is finalized
Finalize(msgs, buf) ==
    LET full == strip(join(buf))
    IN  IF full # << >>
        THEN Append(msgs, [role |-> "assistant", content |-> full])
        ELSE msgs

\* lines 349-371: entry of stream_response
StreamEnter ==
    /\ pc = "stream_enter"
    /\ stop_loading' = [stop_loading EXCEPT ![turns] = TRUE]
    /\ assistant_buf' = << >>
    /\ eval_count' = 0
    /\ prompt_eval_count' = 0
    /\ pos' = 0
    /\ interrupted' = FALSE
    /\ pre_call' = messages
    /\ pc' = "stream_read"
    /\ UNCHANGED << messages, stream, body, failure, exit_code, turns,
                    pre_turn, spin >>
    /\ UNCHANGED cmdVars
    /\ UNCHANGED resolverVars

\* ProcessLine with the done test of line 434 moved before the text is
\* taken: the done fragment's own delta is lost
ProcessLine_done_first(buf, ec, pec, line) ==
    LET dec == Decode(line)
    IN  IF line.kind = "blank" \/ dec = None
        THEN [buf |-> buf, ec |-> ec, pec |-> pec, stop |-> FALSE]
        ELSE LET obj == dec[1]
             IN  [buf  |-> IF Delta(obj) # None /\ ~IsDone(obj)
                           THEN Append(buf, Delta(obj)[1]) ELSE buf,
                  ec   |-> Overwrite(ec, obj.eval_count),
                  pec  |-> Overwrite(pec, obj.prompt_eval_count),
                  stop |-> IsDone(obj)]

\* ProcessLine with an undecodable line passed through as literal text
\* instead of the continue of line 390
ProcessLine_pass_through(buf, ec, pec, line) ==
    LET dec == Decode(line)
    IN  IF line.kind = "blank"
        THEN [buf |-> buf, ec |-> ec, pec |-> pec, stop |-> FALSE]
        ELSE IF dec = None
        THEN [buf |-> Append(buf, <<"?">>), ec |-> ec, pec |-> pec,
              stop |-> FALSE]
        ELSE LET obj == dec[1]
             IN  [buf  |-> IF Delta(obj) # None
                           THEN Append(buf, Delta(obj)[1]) ELSE buf,
                  ec   |-> Overwrite(ec, obj.eval_count),
                  pec  |-> Overwrite(pec, obj.prompt_eval_count),
                  stop |-> IsDone(obj)]

\* lines 374-435: the body of the for loop applied to one line; stop says
\* whether the loop is left by break
ProcessLine(buf, ec, pec, line) ==
    LET dec == Decode(line)
    IN  IF line.kind = "blank" \/ dec = None
        THEN [buf |-> buf, ec |-> ec, pec |-> pec, stop |-> FALSE]
        ELSE LET obj == dec[1]
             IN  [buf  |-> IF Delta(obj) # None
                           THEN Append(buf, Delta(obj)[1]) ELSE buf,
                  ec   |-> Overwrite(ec, obj.eval_count),
                  pec  |-> Overwrite(pec, obj.prompt_eval_count),
                  stop |-> IsDone(obj)]

\* lines 373-435: one iteration of the loop over resp.iter_lines()
ReadLine ==
    /\ pc = "stream_read"
    /\ pos < Len(body)
    /\ pos' = pos + 1
    /\ LET r == ProcessLine(assistant_buf, eval_count, prompt_eval_count,
                            body[pos + 1])
       IN  /\ assistant_buf' = r.buf
           /\ eval_count' = r.ec
           /\ prompt_eval_count' = r.pec
           /\ pc' = IF r.stop THEN "stream_tail" ELSE "stream_read"
    /\ UNCHANGED << body, interrupted, pre_call >>
    /\ UNCHANGED loopVars
    /\ UNCHANGED resolverVars

\* line 373: iter_lines() is exhausted, the for loop ends
EndOfBody ==
    /\ pc = "stream_read"
    /\ pos = Len(body)
    /\ pc' = "stream_tail"
    /\ UNCHANGED readerVars
    /\ UNCHANGED loopVars
    /\ UNCHANGED resolverVars

\* lines 436-437: KeyboardInterrupt raised inside the try block
Interrupt ==
    /\ pc = "stream_read"
    /\ interrupted' = TRUE
    /\ pc' = "stream_tail"
    /\ UNCHANGED << body, pos, assistant_buf, eval_count, prompt_eval_count,
                    pre_call >>
    /\ UNCHANGED loopVars
    /\ UNCHANGED resolverVars

\* line 373: iter_lines() raises a RequestException (connection lost while
\* the body is read); stream_response and interactive have no handler for
\* it, main (lines 647-651) reports it and exits with status 1
BodyFailure ==
    /\ pc = "stream_read"
    /\ failure' = "body"
    /\ exit_code' = 1
    /\ pc' = "exit"
    /\ UNCHANGED << messages, stream, stop_loading, turns, pre_turn, spin >>
    /\ UNCHANGED cmdVars
    /\ UNCHANGED readerVars
    /\ UNCHANGED resolverVars

\* lines 439-453: after the loop, then back in interactive (line 619)
StreamFinish ==
    /\ pc = "stream_tail"
    /\ messages' = Finalize(messages, assistant_buf)
    /\ pc' = "input"
    /\ UNCHANGED << stream, stop_loading, failure, exit_code, turns, pre_turn,
                    spin >>
    /\ UNCHANGED cmdVars
    /\ UNCHANGED readerVars
    /\ UNCHANGED resolverVars

----------------------------------------------------------------------------
(* nonstream_response *)

\* lines 474-478: the text taken from the decoded object
NonstreamContent(obj) ==
    IF obj.message = "dict" THEN obj.content
    ELSE IF obj.has_response THEN obj.response
    ELSE None

\* nonstream_response without line 457
NonstreamEnter_flag_left_clear ==
    /\ pc = "nonstream"
    /\ pre_call' = messages
    /\ pc' = "nonstream_read"
    /\ UNCHANGED << messages, stream, stop_loading, failure, exit_code, turns,
                    pre_turn, spin >>
    /\ UNCHANGED cmdVars
    /\ UNCHANGED << body, pos, assistant_buf, eval_count, prompt_eval_count,
                    interrupted >>
    /\ UNCHANGED resolverVars

\* lines 455-458: entry of nonstream_response
NonstreamEnter ==
    /\ pc = "nonstream"
    /\ stop_loading' = [stop_loading EXCEPT ![turns] = TRUE]
    /\ pre_call' = messages
    /\ pc' = "nonstream_read"
    /\ UNCHANGED << messages, stream, failure, exit_code, turns, pre_turn,
                    spin >>
    /\ UNCHANGED cmdVars
    /\ UNCHANGED << body, pos, assistant_buf, eval_count, prompt_eval_count,
                    interrupted >>
    /\ UNCHANGED resolverVars

\* lines 460-502: the whole body is one JSON document, body[1]
NonstreamResponse ==
    /\ pc = "nonstream_read"
    /\ LET dec == Decode(body[1])
       IN  messages' =
             IF dec = None THEN messages
             ELSE LET content == NonstreamContent(dec[1])
                  IN  IF content # None /\ content[1] # << >>
                      THEN Append(messages, [role |-> "assistant",
                                             content |-> content[1]])
                      ELSE messages
    /\ pc' = "input"
    /\ UNCHANGED << stream, stop_loading, failure, exit_code, turns, pre_turn,
                    spin >>
    /\ UNCHANGED cmdVars
    /\ UNCHANGED readerVars
    /\ UNCHANGED resolverVars

----------------------------------------------------------------------------
(* interactive: the loop *)

UserTexts == { <<"h", "i">> }

\* the models a /model command may name
LoopModels == { L3 \o LATEST, L3 \o <<":", "8", "b">> }

\* what every line read at the prompt records; the locals of the reader
\* call of the turn before are gone by then
Read(cmd) ==
    /\ last_cmd' = cmd
    /\ pre_turn' = messages
    /\ pre_model' = model
    /\ failure' = "none"
    /\ body' = << >>
    /\ pos' = 0
    /\ assistant_buf' = << >>
    /\ eval_count' = 0
    /\ prompt_eval_count' = 0
    /\ interrupted' = FALSE
    /\ pre_call' = << >>

\* new_model is assigned at line 559 before every use, so outside a /model
\* command its value is dead and is kept as << >>

\* lines 533-537 and 587-589: end of input, Ctrl-C at the prompt, or /exit
InputExit ==
    /\ pc = "input"
    /\ Read("exit")
    /\ pc' = "exit"
    /\ exit_code' = 0
    /\ UNCHANGED << messages, stream, stop_loading, turns, spin, model >>
    /\ new_model' = << >>
    /\ UNCHANGED resolverVars

\* lines 539-552: an empty line, /help, /models, /info
InputNoOp ==
    /\ pc = "input"
    /\ \E cmd \in {"empty", "help", "models", "info"} : Read(cmd)
    /\ new_model' = << >>
    /\ UNCHANGED << pc, messages, stream, stop_loading, exit_code, turns, spin,
                    model >>
    /\ UNCHANGED resolverVars

\* lines 554-558: /model without an argument
InputModelUsage ==
    /\ pc = "input"
    /\ Read("model_usage")
    /\ new_model' = << >>
    /\ UNCHANGED << pc, messages, stream, stop_loading, exit_code, turns, spin,
                    model >>
    /\ UNCHANGED resolverVars

\* lines 554-567: /model <name>; names is what list_local_models returns
InputModel ==
    /\ pc = "input"
    /\ \E name \in LoopModels, names \in SeqsUpTo(LoopModels, 2) :
         /\ new_model' = name
         /\ IF in_list(name, names)
            THEN /\ Read("model_found")
                 /\ model' = name
                 /\ messages' = << >>
                 /\ pc' = "input"
            ELSE /\ Read("model_absent")
                 /\ pc' = "pull_prompt"
                 /\ UNCHANGED << model, messages >>
    /\ UNCHANGED << stream, stop_loading, exit_code, turns, spin >>
    /\ UNCHANGED resolverVars

\* pull_model with the failure result of line 577 treated as success
PullAnswered_switch_on_failure ==
    /\ pc = "pull_prompt"
    /\ \E choice \in {"y", "yes", "n", ""}, ok \in BOOLEAN :
         IF choice = "y" \/ choice = "yes"
         THEN /\ model' = new_model
              /\ messages' = << >>
              /\ last_cmd' = IF ok THEN "model_pulled" ELSE "model_pull_failed"
         ELSE /\ last_cmd' = "model_declined"
              /\ UNCHANGED << model, messages >>
    /\ pc' = "input"
    /\ UNCHANGED << stream, stop_loading, exit_code, turns, spin, new_model,
                    pre_model, failure, pre_turn >>
    /\ UNCHANGED readerVars
    /\ UNCHANGED resolverVars

\* lines 568-580: the answer to "Pull it now?" and, on y or yes, the
\* result ok of pull_model (lines 308-333)
PullAnswered ==
    /\ pc = "pull_prompt"
    /\ \E choice \in {"y", "yes", "n", ""}, ok \in BOOLEAN :
         IF choice = "y" \/ choice = "yes"
         THEN IF ok
              THEN /\ model' = new_model
                   /\ messages' = << >>
                   /\ last_cmd' = "model_pulled"
              ELSE /\ last_cmd' = "model_pull_failed"
                   /\ UNCHANGED << model, messages >>
         ELSE /\ last_cmd' = "model_declined"
              /\ UNCHANGED << model, messages >>
    /\ pc' = "input"
    /\ UNCHANGED << stream, stop_loading, exit_code, turns, spin, new_model,
                    pre_model, failure, pre_turn >>
    /\ UNCHANGED readerVars
    /\ UNCHANGED resolverVars

\* line 568: end of input at "Pull it now?" raises EOFError, which only
\* main (lines 647-651) handles
PullPromptEnds ==
    /\ pc = "pull_prompt"
    /\ pc' = "exit"
    /\ exit_code' = 1
    /\ UNCHANGED << messages, stream, stop_loading, turns, spin, failure,
                    pre_turn >>
    /\ UNCHANGED cmdVars
    /\ UNCHANGED readerVars
    /\ UNCHANGED resolverVars

\* lines 582-585: /reset
InputReset ==
    /\ pc = "input"
    /\ Read("reset")
    /\ messages' = << >>
    /\ UNCHANGED << pc, stream, stop_loading, exit_code, turns, spin, model >>
    /\ new_model' = << >>
    /\ UNCHANGED resolverVars

\* lines 591-604: any other non-empty text is the user's message; a new
\* Event and a new show_loading thread are made for the turn
InputMessage ==
    /\ pc = "input"
    /\ turns < MaxTurns
    /\ Read("message")
    /\ \E text \in UserTexts :
         messages' = Append(messages, [role |-> "user", content |-> text])
    /\ turns' = turns + 1
    /\ stop_loading' = [stop_loading EXCEPT ![turns + 1] = FALSE]
    /\ spin' = [spin EXCEPT ![turns + 1] = "looping"]
    /\ pc' = "post_chat"
    /\ new_model' = << >>
    /\ UNCHANGED << stream, exit_code, model >>
    /\ UNCHANGED resolverVars

\* lines 228-242 and 606-611: the request fails (connection refused,
\* timeout, non-2xx status); post_chat returns None
PostChatFails ==
    /\ pc = "post_chat"
    /\ failure' = "request"
    /\ stop_loading' = [stop_loading EXCEPT ![turns] = TRUE]
    /\ messages' = SubSeq(messages, 1, Len(messages) - 1)
    /\ pc' = "input"
    /\ UNCHANGED << stream, exit_code, turns, pre_turn, spin >>
    /\ UNCHANGED cmdVars
    /\ UNCHANGED readerVars
    /\ UNCHANGED resolverVars

\* line 606: KeyboardInterrupt while post_chat waits for the server; it is
\* not an Exception, so nothing up to main catches it and the process ends
\* with the turn's flag still clear
PostChatInterrupted ==
    /\ pc = "post_chat"
    /\ exit_code' = 1
    /\ pc' = "exit"
    /\ UNCHANGED << messages, stream, stop_loading, failure, turns, pre_turn,
                    spin >>
    /\ UNCHANGED cmdVars
    /\ UNCHANGED readerVars
    /\ UNCHANGED resolverVars

\* lines 228-239 and 613-616: the request succeeds; the response carries
\* the body that the reader will see
PostChatOk ==
    /\ pc = "post_chat"
    /\ IF stream
       THEN /\ body' \in LoopBodies
            /\ pc' = "stream_enter"
       ELSE /\ body' \in { << l >> : l \in LoopLines }
            /\ pc' = "nonstream"
    /\ UNCHANGED << pos, assistant_buf, eval_count, prompt_eval_count,
                    interrupted, pre_call >>
    /\ UNCHANGED loopVars
    /\ UNCHANGED resolverVars

----------------------------------------------------------------------------
(* show_loading: the spinner thread of turn t.  The frame index only       *)
(* chooses the character drawn and is left out.  One pass of the loop      *)
(* reads the flag once and then only draws and sleeps, so a pass is one    *)
(* step.  The thread is a daemon: it takes no step once the process has    *)
(* ended.                                                                  *)

\* lines 117-122: the test of the while loop, then either a frame and
\* time.sleep(0.1), back at the test, or the clearing print and the return
SpinPass(t) ==
    /\ pc # "exit"
    /\ spin[t] = "looping"
    /\ spin' = [spin EXCEPT ![t] = IF stop_loading[t] THEN "done"
                                   ELSE "looping"]
    /\ UNCHANGED << pc, messages, stream, stop_loading, failure, exit_code,
                    turns, pre_turn >>
    /\ UNCHANGED cmdVars
    /\ UNCHANGED readerVars
    /\ UNCHANGED resolverVars

Turns == 1..MaxTurns

ShowLoading == \E t \in Turns : SpinPass(t)

----------------------------------------------------------------------------
(* Specifications *)

LoopIdle(m) ==
    /\ stop_loading = [t \in Turns |-> FALSE]
    /\ spin = [t \in Turns |-> "unborn"]
    /\ model = m
    /\ new_model = << >>
    /\ last_cmd = "none"
    /\ pre_model = m

ReaderIdle ==
    /\ body = << >>
    /\ pos = 0
    /\ assistant_buf = << >>
    /\ eval_count = 0
    /\ prompt_eval_count = 0
    /\ interrupted = FALSE
    /\ pre_call = << >>

ResolverIdle ==
    /\ requested_model = << >>
    /\ local = << >>
    /\ interactive_flag = FALSE
    /\ cands = << >>
    /\ strategy = "none"
    /\ answer = << >>
    /\ prompts = 0
    /\ result = None
    /\ exc = ""

\* interactive(host, model, stream) is entered with an empty transcript
Init ==
    /\ pc = "input"
    /\ messages = << >>
    /\ stream \in BOOLEAN
    /\ LoopIdle(L3 \o LATEST)
    /\ failure = "none"
    /\ exit_code = -1
    /\ turns = 0
    /\ pre_turn = << >>
    /\ ReaderIdle
    /\ ResolverIdle

Next ==
    \/ InputExit
    \/ InputNoOp
    \/ InputModelUsage
    \/ InputModel
    \/ PullAnswered
    \/ PullPromptEnds
    \/ InputReset
    \/ InputMessage
    \/ PostChatFails
    \/ PostChatOk
    \/ PostChatInterrupted
    \/ StreamEnter
    \/ ReadLine
    \/ EndOfBody
    \/ Interrupt
    \/ BodyFailure
    \/ StreamFinish
    \/ NonstreamEnter
    \/ NonstreamResponse
    \/ ShowLoading

Spec == Init /\ [][Next]_vars

\* Both threads keep running while the process lives: a step of the
\* spinner thread or of the main thread's own code that stays possible is
\* eventually taken.  What the user types, interrupts and connection
\* failures come from outside and are not owed.
FairSpec ==
    /\ Spec
    /\ \A t \in Turns : WF_vars(SpinPass(t))
    /\ WF_vars(PostChatFails \/ PostChatOk)
    /\ WF_vars(StreamEnter)
    /\ WF_vars(ReadLine \/ EndOfBody)
    /\ WF_vars(StreamFinish)
    /\ WF_vars(NonstreamEnter)
    /\ WF_vars(NonstreamResponse)

\* One call of stream_response(resp, messages, stop_loading) in a turn of
\* the loop: the user message of the turn is already the last message
UserMsg == [role |-> "user", content |-> <<"h", "i">>]
AssistantMsg == [role |-> "assistant", content |-> <<"a">>]
CallTranscripts == { << UserMsg >>, << UserMsg, AssistantMsg, UserMsg >> }

InitStream ==
    /\ pc = "stream_enter"
    /\ messages \in CallTranscripts
    /\ stream = TRUE
    /\ LoopIdle(L3 \o LATEST)
    /\ failure = "none"
    /\ exit_code = -1
    /\ turns = 1
    /\ pre_turn = SubSeq(messages, 1, Len(messages) - 1)
    /\ body \in Bodies
    /\ pos = 0
    /\ assistant_buf = << >>
    /\ eval_count = 0
    /\ prompt_eval_count = 0
    /\ interrupted = FALSE
    /\ pre_call = << >>
    /\ ResolverIdle

NextStream ==
    \/ StreamEnter
    \/ ReadLine
    \/ EndOfBody
    \/ Interrupt
    \/ BodyFailure
    \/ StreamFinish

SpecStream == InitStream /\ [][NextStream]_vars

\* The main thread keeps running: a step of the reader that is possible is
\* eventually taken.  Interrupts and connection failures come from outside
\* and are not owed.
FairSpecStream ==
    /\ SpecStream
    /\ WF_vars(StreamEnter)
    /\ WF_vars(ReadLine \/ EndOfBody)
    /\ WF_vars(StreamFinish)

----------------------------------------------------------------------------
(* resolve_model *)

\* m.split(':', 1)[0]
RECURSIVE split_base(_)
split_base(m) ==
    IF m = << >> THEN << >>
    ELSE IF Head(m) = ":" THEN << >>
    ELSE << Head(m) >> \o split_base(Tail(m))

\* m.startswith(r)
startswith(m, r) == Len(r) <= Len(m) /\ SubSeq(m, 1, Len(r)) = r

\* r in m, for strings
is_substring(r, m) ==
    \E i \in 1..(Len(m) + 1) :
        i + Len(r) - 1 <= Len(m) /\ SubSeq(m, i, i + Len(r) - 1) = r

\* base_matches without the split of line 270
base_matches_whole_name(req, lst) == SelectSeq(lst, LAMBDA m : m = req)

base_matches(req, lst) == SelectSeq(lst, LAMBDA m : split_base(m) = req)
starts(req, lst) == SelectSeq(lst, LAMBDA m : startswith(m, req))
contains(req, lst) == SelectSeq(lst, LAMBDA m : is_substring(req, m))

\* Characters of a typed answer.  "sup2" is U+00B2 SUPERSCRIPT TWO: a
\* character str.isdigit() accepts and int() rejects.
DecimalDigits == {"0", "1", "2", "3", "4", "5", "6", "7", "8", "9"}
OtherDigits == {"sup2"}

\* str.isdigit()
isdigit(s) ==
    s # << >> /\ \A i \in 1..Len(s) : s[i] \in DecimalDigits \cup OtherDigits

\* int(s) raises ValueError unless every character is a decimal digit
int_raises(s) == \E i \in 1..Len(s) : s[i] \notin DecimalDigits

DigitValue(c) ==
    CASE c = "0" -> 0 [] c = "1" -> 1 [] c = "2" -> 2 [] c = "3" -> 3
      [] c = "4" -> 4 [] c = "5" -> 5 [] c = "6" -> 6 [] c = "7" -> 7
      [] c = "8" -> 8 [] c = "9" -> 9

\* int(s) for a string of decimal digits
RECURSIVE int(_)
int(s) ==
    IF s = << >> THEN 0
    ELSE int(SubSeq(s, 1, Len(s) - 1)) * 10 + DigitValue(s[Len(s)])

AvailNames ==
    { L3,                               \* llama3
      L3 \o LATEST,                     \* llama3:latest
      L3 \o <<":", "8", "b">>,          \* llama3:8b
      L3 \o <<":", "7", "b">>,          \* llama3:7b
      L3 \o <<"-", "v">> \o LATEST,     \* llama3-v:latest
      <<"m", "y">> \o L3 }              \* myllama3

RequestedNames ==
    { L3,                               \* llama3
      L3 \o LATEST,                     \* llama3:latest
      L3 \o <<"-", "v">>,               \* llama3-v
      <<"l", "l", "a">>,                \* lla
      <<"a", "m", "a">>,                \* ama
      <<"z">> }                         \* z

AnswerChars == {" ", "0", "1", "2", "3", "4", "x", "sup2"}
Answers == SeqsUpTo(AnswerChars, 2)

\* return v
Return(v, how) ==
    /\ result' = v
    /\ strategy' = how
    /\ pc' = "resolved"
    /\ UNCHANGED << requested_model, local, interactive_flag, cands, answer,
                    prompts, exc >>

GoTo(next) ==
    /\ pc' = next
    /\ UNCHANGED resolverVars

\* AfterMatches that settles an unprompted ambiguity by taking the first
\* match
AfterMatches_first_match(ms, how, next) ==
    IF Len(ms) = 1 THEN Return(Some(ms[1]), how)
    ELSE IF Len(ms) > 1 /\ interactive_flag
    THEN /\ cands' = ms
         /\ strategy' = how
         /\ pc' = "resolve_prompt"
         /\ UNCHANGED << requested_model, local, interactive_flag, answer,
                         prompts, result, exc >>
    ELSE IF Len(ms) > 1 THEN Return(Some(ms[1]), how)
    ELSE IF next = "none" THEN Return(None, "none")
    ELSE GoTo(next)

\* lines 271-280, 283-292, 295-304: what follows the list of one strategy
AfterMatches(ms, how, next) ==
    IF Len(ms) = 1 THEN Return(Some(ms[1]), how)
    ELSE IF Len(ms) > 1 /\ interactive_flag
    THEN /\ cands' = ms
         /\ strategy' = how
         /\ pc' = "resolve_prompt"
         /\ UNCHANGED << requested_model, local, interactive_flag, answer,
                         prompts, result, exc >>
    ELSE IF next = "none" THEN Return(None, "none")
    ELSE GoTo(next)

\* lines 259-261
ListLocalModels ==
    /\ pc = "resolve"
    /\ IF local = << >> THEN Return(None, "none") ELSE GoTo("resolve_exact")
    /\ UNCHANGED loopVars
    /\ UNCHANGED readerVars

\* ResolveExact with the ":latest" test of lines 266-268 made first
ResolveExact_latest_first ==
    /\ pc = "resolve_exact"
    /\ IF in_list(requested_model \o LATEST, local)
       THEN Return(Some(requested_model \o LATEST), "latest")
       ELSE IF in_list(requested_model, local)
       THEN Return(Some(requested_model), "exact")
       ELSE GoTo("resolve_latest")
    /\ UNCHANGED loopVars
    /\ UNCHANGED readerVars

\* lines 263-264
ResolveExact ==
    /\ pc = "resolve_exact"
    /\ IF in_list(requested_model, local)
       THEN Return(Some(requested_model), "exact")
       ELSE GoTo("resolve_latest")
    /\ UNCHANGED loopVars
    /\ UNCHANGED readerVars

\* lines 266-268
ResolveLatest ==
    /\ pc = "resolve_latest"
    /\ LET candidate == requested_model \o LATEST
       IN  IF in_list(candidate, local)
           THEN Return(Some(candidate), "latest")
           ELSE GoTo("resolve_base")
    /\ UNCHANGED loopVars
    /\ UNCHANGED readerVars

\* lines 270-280
ResolveBase ==
    /\ pc = "resolve_base"
    /\ AfterMatches(base_matches(requested_model, local), "base",
                    "resolve_prefix")
    /\ UNCHANGED loopVars
    /\ UNCHANGED readerVars

\* lines 282-292
ResolvePrefix ==
    /\ pc = "resolve_prefix"
    /\ AfterMatches(starts(requested_model, local), "prefix",
                    "resolve_contains")
    /\ UNCHANGED loopVars
    /\ UNCHANGED readerVars

\* lines 294-306
ResolveContains ==
    /\ pc = "resolve_contains"
    /\ AfterMatches(contains(requested_model, local), "contains", "none")
    /\ UNCHANGED loopVars
    /\ UNCHANGED readerVars

\* Choose with the index used as typed, without the -1 of line 279
Choose_zero_based(sel) ==
    IF isdigit(sel)
    THEN IF int_raises(sel)
         THEN /\ exc' = "ValueError"
              /\ pc' = "raised"
              /\ UNCHANGED result
         ELSE /\ result' = IF 0 <= int(sel) /\ int(sel) < Len(cands)
                           THEN Some(cands[int(sel) + 1]) ELSE None
              /\ pc' = "resolved"
              /\ UNCHANGED exc
    ELSE /\ result' = None
         /\ pc' = "resolved"
         /\ UNCHANGED exc

\* lines 277-280, 289-292, 301-304: the answer typed at the prompt
Choose(sel) ==
    IF isdigit(sel)
    THEN IF int_raises(sel)
         THEN /\ exc' = "ValueError"
              /\ pc' = "raised"
              /\ UNCHANGED result
         ELSE /\ result' = IF 1 <= int(sel) /\ int(sel) <= Len(cands)
                           THEN Some(cands[int(sel)]) ELSE None
              /\ pc' = "resolved"
              /\ UNCHANGED exc
    ELSE /\ result' = None
         /\ pc' = "resolved"
         /\ UNCHANGED exc

ResolvePrompt ==
    /\ pc = "resolve_prompt"
    /\ \E a \in Answers :
         /\ answer' = a
         /\ Choose(strip(a))
    /\ prompts' = prompts + 1
    /\ UNCHANGED << requested_model, local, interactive_flag, cands, strategy >>
    /\ UNCHANGED loopVars
    /\ UNCHANGED readerVars

\* resolve_model(host, requested_model, interactive) is called with the
\* list the server returns
InitResolve ==
    /\ pc = "resolve"
    /\ requested_model \in RequestedNames
    /\ local \in SeqsUpTo(AvailNames, MaxLocal)
    /\ interactive_flag \in BOOLEAN
    /\ cands = << >>
    /\ strategy = "none"
    /\ answer = << >>
    /\ prompts = 0
    /\ result = None
    /\ exc = ""
    /\ messages = << >>
    /\ stream = TRUE
    /\ LoopIdle(L3 \o LATEST)
    /\ failure = "none"
    /\ exit_code = -1
    /\ turns = 0
    /\ pre_turn = << >>
    /\ ReaderIdle

NextResolve ==
    \/ ListLocalModels
    \/ ResolveExact
    \/ ResolveLatest
    \/ ResolveBase
    \/ ResolvePrefix
    \/ ResolveContains
    \/ ResolvePrompt

SpecResolve == InitResolve /\ [][NextResolve]_vars

----------------------------------------------------------------------------
(* What the reader's contract says of a body, stated without the loop *)

\* the text delta a line carries: message.content when message is an
\* object, else the top-level response; nothing for blank or undecodable
\* lines and for null text
FragmentDelta(line) ==
    IF line.kind # "obj" THEN None
    ELSE IF line.message = "dict" THEN line.content
    ELSE IF line.has_response THEN line.response
    ELSE None

FragmentDone(line) ==
    line.kind = "obj" /\ line.done = Some(TRUE)

RECURSIVE ConcatDeltas(_)
ConcatDeltas(lines) ==
    IF lines = << >> THEN << >>
    ELSE LET d == FragmentDelta(Head(lines))
         IN  (IF d = None THEN << >> ELSE d[1]) \o ConcatDeltas(Tail(lines))

\* index of the first line whose done is truthy, 0 when there is none
FirstDone(lines) ==
    IF \E i \in 1..Len(lines) : FragmentDone(lines[i])
    THEN CHOOSE i \in 1..Len(lines) :
            /\ FragmentDone(lines[i])
            /\ \A j \in 1..(i - 1) : ~FragmentDone(lines[j])
    ELSE 0

ThroughDone(lines) ==
    IF FirstDone(lines) = 0 THEN lines ELSE SubSeq(lines, 1, FirstDone(lines))

RemoveAt(s, i) == SubSeq(s, 1, i - 1) \o SubSeq(s, i + 1, Len(s))

\* the reader run to completion on a body, by the loop body alone
RECURSIVE Consume(_, _)
Consume(st, lines) ==
    IF lines = << >> THEN st
    ELSE LET r == ProcessLine(st.buf, st.ec, st.pec, Head(lines))
         IN  IF r.stop THEN r ELSE Consume(r, Tail(lines))

Fresh == [buf |-> << >>, ec |-> 0, pec |-> 0, stop |-> FALSE]

Returned == pc = "input"

----------------------------------------------------------------------------
(* C1: if stream_response is interrupted (KeyboardInterrupt) after text    *)
(* has been accumulated and before the stream completes, the accumulated   *)
(* text is discarded: the transcript after the call equals the transcript  *)
(* before the call.                                                        *)
C1_InterruptDiscardsPartialText ==
    (Returned /\ interrupted /\ assistant_buf # << >>)
        => messages = pre_call

----------------------------------------------------------------------------
(* C3 as written: an uninterrupted run appends exactly one assistant       *)
(* message whose content is the concatenation of all non-null text deltas  *)
(* of the body when that concatenation is non-empty after trimming, and    *)
(* nothing otherwise.                                                      *)
C3_AppendsConcatenationOfAllDeltas ==
    (Returned /\ ~interrupted) =>
        LET cat == ConcatDeltas(body)
        IN  messages =
              IF strip(cat) # << >>
              THEN Append(pre_call, [role |-> "assistant", content |-> cat])
              ELSE pre_call

(* C3 amended: an uninterrupted run appends exactly one assistant message  *)
(* whose content is the trimmed concatenation, in arrival order, of the    *)
(* non-null text deltas of the fragments up to and including the first     *)
(* one whose done is truthy, when that trimmed text is non-empty, and      *)
(* nothing otherwise; the earlier messages are unchanged.                  *)
C3_AppendsTrimmedDeltasThroughDone ==
    (Returned /\ ~interrupted) =>
        LET full == strip(ConcatDeltas(ThroughDone(body)))
        IN  messages =
              IF full # << >>
              THEN Append(pre_call, [role |-> "assistant", content |-> full])
              ELSE pre_call

\* two deltas joined in arrival order, trimmed, appended as one message
C3_Witness ==
    /\ Returned
    /\ ~interrupted
    /\ Len(assistant_buf) >= 2
    /\ Len(messages) = Len(pre_call) + 1
    /\ messages[Len(messages)].content = <<"a", " ", "a">>

----------------------------------------------------------------------------
(* C4: the reader stops at the first fragment whose done is truthy (its    *)
(* own delta included, later lines contributing nothing) or at the end of  *)
(* the line sequence; either way the buffer is finalized and appended as   *)
(* a normal completion, and the read loop terminates.                      *)
StopIndex(lines) ==
    IF FirstDone(lines) = 0 THEN Len(lines) ELSE FirstDone(lines)

C4_ReadsThroughFirstDone ==
    LET stop == StopIndex(body)
        text == ConcatDeltas(SubSeq(body, 1, stop))
    IN  /\ pos <= stop
        /\ (pc = "stream_read" /\ pos > 0) => ~FragmentDone(body[pos])
        /\ (pc = "stream_tail" /\ ~interrupted) =>
              /\ pos = stop
              /\ join(assistant_buf) = text
        /\ (Returned /\ ~interrupted) =>
              /\ pos = stop
              /\ Len(messages) = Len(pre_call) + (IF strip(text) = << >> THEN 0 ELSE 1)
              /\ SubSeq(messages, 1, Len(pre_call)) = pre_call
              /\ strip(text) # << >> =>
                    messages[Len(messages)] =
                        [role |-> "assistant", content |-> strip(text)]

C4_StopsAtDoneOrEndAndTerminates ==
    /\ []C4_ReadsThroughFirstDone
    /\ (pc = "stream_read") ~> (pc # "stream_read")

\* a done fragment with a delta of its own, followed by a line that has a
\* delta too: the first is in the message, the second is not
C4_Witness ==
    /\ Returned
    /\ ~interrupted
    /\ Len(body) = 3
    /\ FirstDone(body) = 2
    /\ FragmentDelta(body[1]) = Some(<<"b">>)
    /\ FragmentDelta(body[2]) = Some(<<"a">>)
    /\ FragmentDelta(body[3]) = Some(<<"a">>)
    /\ messages = Append(pre_call, [role |-> "assistant",
                                    content |-> <<"b", "a">>])

----------------------------------------------------------------------------
(* C5: a line that fails JSON decoding is skipped without ending the read  *)
(* loop: it adds no text and changes no token count, and the final         *)
(* assistant text is what the same stream gives with that line removed.    *)
C5_UndecodableLineIsSkipped ==
    /\ (pos > 0 /\ body[pos].kind = "bad" /\ pc \in {"stream_read", "stream_tail"}) =>
          LET before == Consume(Fresh, SubSeq(body, 1, pos - 1))
          IN  /\ assistant_buf = before.buf
              /\ eval_count = before.ec
              /\ prompt_eval_count = before.pec
              /\ pc = "stream_tail" => (interrupted \/ pos = Len(body))
    /\ (Returned /\ ~interrupted) =>
          \A i \in 1..Len(body) :
              body[i].kind = "bad" =>
                  LET without == Consume(Fresh, RemoveAt(body, i))
                  IN  /\ messages = Finalize(pre_call, without.buf)
                      /\ eval_count = without.ec
                      /\ prompt_eval_count = without.pec

\* an undecodable line between two text fragments, the second one read
C5_Witness ==
    /\ Returned
    /\ ~interrupted
    /\ Len(body) = 3
    /\ FragmentDelta(body[1]) = Some(<<"a">>)
    /\ body[2].kind = "bad"
    /\ FragmentDelta(body[3]) = Some(<<"b">>)
    /\ messages = Append(pre_call, [role |-> "assistant",
                                    content |-> <<"a", "b">>])

----------------------------------------------------------------------------
(* C2: a transport failure at any stage of a turn (the request, or the     *)
(* streamed body while it is read) aborts only that turn: the transcript   *)
(* is back at its pre-turn value and the loop is at its input prompt, the  *)
(* process has not ended.                                                  *)
C2_TransportFailureAbortsOnlyTheTurn ==
    failure # "none" =>
        /\ pc = "input"
        /\ exit_code = -1
        /\ messages = pre_turn

----------------------------------------------------------------------------
(* What the resolver's contract says of a request, stated without the code *)

Available(name) == \E i \in 1..Len(local) : local[i] = name

\* the part of a name before its first ':'
BasePart(m) ==
    IF \E i \in 1..Len(m) : m[i] = ":"
    THEN LET i == CHOOSE i \in 1..Len(m) :
                    m[i] = ":" /\ \A j \in 1..(i - 1) : m[j] # ":"
         IN  SubSeq(m, 1, i - 1)
    ELSE m

HasPrefix(m, r) == \E k \in 0..Len(m) : SubSeq(m, 1, k) = r
HasInfix(m, r) ==
    \E i \in 1..(Len(m) + 1) : \E k \in (i - 1)..Len(m) : SubSeq(m, i, k) = r

\* positions of local that match the request under a strategy
BaseHits == { i \in 1..Len(local) : BasePart(local[i]) = requested_model }
PrefixHits == { i \in 1..Len(local) : HasPrefix(local[i], requested_model) }
InfixHits == { i \in 1..Len(local) : HasInfix(local[i], requested_model) }

\* the k-th name of local, in listing order, among the positions hits
RECURSIVE Listing(_, _)
Listing(hits, i) ==
    IF i > Len(local) THEN << >>
    ELSE (IF i \in hits THEN << local[i] >> ELSE << >>) \o Listing(hits, i + 1)

\* the first of base name, prefix, substring that matches anything
FirstHits ==
    IF BaseHits # {} THEN BaseHits
    ELSE IF PrefixHits # {} THEN PrefixHits
    ELSE InfixHits

\* the typed answer, trimmed, is a decimal numeral
Numeric(a) ==
    LET t == strip(a)
    IN  t # << >> /\ \A i \in 1..Len(t) : t[i] \in DecimalDigits

Number(a) == int(strip(a))

Ended == pc \in {"resolved", "raised"}

----------------------------------------------------------------------------
(* C6 as written: when requestedName is not an available name and two or   *)
(* more available names have it as the part before their first ':', the    *)
(* request is ambiguous among those names: without interaction the result  *)
(* is failure, with interaction the names are listed and selection k       *)
(* returns the k-th (llama3 against llama3:latest, llama3:8b).             *)
AmbiguousAmongBaseHits ==
    IF ~interactive_flag
    THEN prompts = 0 /\ result = None
    ELSE /\ prompts = 1
         /\ cands = Listing(BaseHits, 1)
         /\ (Numeric(answer) /\ Number(answer) \in 1..Len(cands)) =>
                result = Some(cands[Number(answer)])

C6_BaseNameAmbiguity ==
    (Ended /\ ~Available(requested_model) /\ Cardinality(BaseHits) >= 2)
        => AmbiguousAmongBaseHits

(* C6 amended: the same, when neither requestedName nor                    *)
(* requestedName + ":latest" is an available name (llama3 against          *)
(* llama3:8b, llama3:7b).                                                  *)
C6_BaseNameAmbiguityWithoutLatest ==
    (/\ Ended
     /\ ~Available(requested_model)
     /\ ~Available(requested_model \o LATEST)
     /\ Cardinality(BaseHits) >= 2)
        => AmbiguousAmongBaseHits

C6_Witness ==
    /\ pc = "resolved"
    /\ interactive_flag
    /\ requested_model = L3
    /\ local = << L3 \o <<":", "7", "b">>, L3 \o <<":", "8", "b">> >>
    /\ answer = <<"2">>
    /\ result = Some(L3 \o <<":", "8", "b">>)

----------------------------------------------------------------------------
(* C7 as written: with interaction disallowed resolve_model never prompts, *)
(* and whenever the first of base name, prefix, substring that matches     *)
(* anything matches more than one name, the result is failure.             *)
C7_NoInteractionAmbiguityFails ==
    ~interactive_flag =>
        /\ prompts = 0
        /\ pc # "resolve_prompt"
        /\ (Ended /\ Cardinality(FirstHits) > 1) => result = None

(* C7 amended: the same, when neither requestedName nor                    *)
(* requestedName + ":latest" is an available name.                         *)
C7_NoInteractionAmbiguityFailsWithoutExact ==
    ~interactive_flag =>
        /\ prompts = 0
        /\ pc # "resolve_prompt"
        /\ (/\ Ended
            /\ ~Available(requested_model)
            /\ ~Available(requested_model \o LATEST)
            /\ Cardinality(FirstHits) > 1) => result = None

\* no base-name match, two prefix matches, no interaction: failure
C7_Witness ==
    /\ pc = "resolved"
    /\ ~interactive_flag
    /\ requested_model = <<"l", "l", "a">>
    /\ BaseHits = {}
    /\ Cardinality(PrefixHits) = 2
    /\ Cardinality(InfixHits) = 3
    /\ result = None

----------------------------------------------------------------------------
(* C8: when requestedName is one of the available names, resolve_model     *)
(* returns exactly requestedName, without prompting and without            *)
(* consulting a later strategy, whatever else matches.                     *)
C8_ExactMatchShortCircuits ==
    Available(requested_model) =>
        /\ pc \in {"resolve", "resolve_exact", "resolved"}
        /\ prompts = 0
        /\ pc = "resolved" => result = Some(requested_model)

\* llama3 is available, and so are llama3:latest and a second base match
C8_Witness ==
    /\ pc = "resolved"
    /\ requested_model = L3
    /\ local = << L3 \o <<":", "8", "b">>, L3 \o LATEST, L3 >>
    /\ result = Some(L3)

----------------------------------------------------------------------------
(* C9 as written: with requestedName and requestedName + ":latest" not     *)
(* available and exactly one base-name match, that name is returned        *)
(* without prompting whatever matches by prefix or substring; and a        *)
(* looser strategy is consulted only when every stricter one has zero      *)
(* matches.                                                                *)
SingleBaseHitWins ==
    (/\ Ended
     /\ ~Available(requested_model)
     /\ ~Available(requested_model \o LATEST)
     /\ Cardinality(BaseHits) = 1)
        => /\ result = Listing(BaseHits, 1)
           /\ prompts = 0
           /\ pc = "resolved"

NoExactHit == ~Available(requested_model)
NoLatestHit == ~Available(requested_model \o LATEST)

C9_LooserOnlyAfterZeroMatches ==
    /\ SingleBaseHitWins
    /\ pc = "resolve_latest" => NoExactHit
    /\ pc = "resolve_base" => NoExactHit /\ NoLatestHit
    /\ pc = "resolve_prefix" => NoExactHit /\ NoLatestHit /\ BaseHits = {}
    /\ pc = "resolve_contains" =>
          NoExactHit /\ NoLatestHit /\ BaseHits = {} /\ PrefixHits = {}

(* C9 amended: the first part unchanged; a looser strategy is consulted    *)
(* only when every stricter one has zero matches, or when interaction is   *)
(* disallowed and a stricter one has more than one match, and in that      *)
(* second case the result is failure.                                      *)
FellThrough(hits) == ~interactive_flag /\ Cardinality(hits) > 1

C9_LooserAfterZeroOrUnpromptedAmbiguity ==
    /\ SingleBaseHitWins
    /\ pc = "resolve_latest" => NoExactHit
    /\ pc = "resolve_base" => NoExactHit /\ NoLatestHit
    /\ pc = "resolve_prefix" =>
          NoExactHit /\ NoLatestHit /\ (BaseHits = {} \/ FellThrough(BaseHits))
    /\ pc = "resolve_contains" =>
          /\ NoExactHit /\ NoLatestHit
          /\ BaseHits = {} \/ FellThrough(BaseHits)
          /\ PrefixHits = {} \/ FellThrough(PrefixHits)
    /\ (Ended /\ NoExactHit /\ NoLatestHit
          /\ (FellThrough(BaseHits) \/ (BaseHits = {} /\ FellThrough(PrefixHits))))
          => result = None

\* one base-name match, two more names matching by prefix and substring
C9_Witness ==
    /\ pc = "resolved"
    /\ requested_model = L3
    /\ local = << <<"m", "y">> \o L3, L3 \o <<"-", "v">> \o LATEST,
                  L3 \o <<":", "8", "b">> >>
    /\ result = Some(L3 \o <<":", "8", "b">>)
    /\ prompts = 0

----------------------------------------------------------------------------
(* C10: when a strategy yields more than one candidate and interaction is  *)
(* allowed, exactly one prompt is issued; a numeric answer k with          *)
(* 1 <= k <= count returns the k-th candidate, any other answer returns    *)
(* None at once.                                                           *)
C10_OnePromptThenIndexOrNone ==
    (Ended /\ prompts > 0) =>
        /\ prompts = 1
        /\ pc = "resolved"
        /\ result = IF Numeric(answer) /\ Number(answer) \in 1..Len(cands)
                    THEN Some(cands[Number(answer)])
                    ELSE None

----------------------------------------------------------------------------
(* C11: across any sequence of commands the transcript starts empty and    *)
(* becomes empty exactly on /reset and on a model switch that succeeds     *)
(* (name found locally, or pulled); a /model command that does not switch  *)
(* (no argument, pull declined, pull failed) leaves the model and the      *)
(* transcript as they were, and so do /help, /models and /info.            *)
Clearing == {"reset", "model_found", "model_pulled"}
Switching == {"model_found", "model_pulled"}
Inert == {"empty", "help", "models", "info", "model_usage", "model_absent",
          "model_declined", "model_pull_failed"}

C11_TranscriptClearedOnlyByResetOrSwitch ==
    /\ last_cmd = "none" => messages = << >>
    /\ (pc = "input" /\ last_cmd \in Clearing) => messages = << >>
    /\ (pc = "input" /\ last_cmd \in Switching) => model = new_model
    /\ last_cmd \in Inert => (messages = pre_turn /\ model = pre_model)
    /\ last_cmd \notin Switching => model = pre_model
    /\ (pre_turn # << >> /\ messages = << >>) => last_cmd \in Clearing

\* a pull that succeeds on a transcript that holds an exchange
C11_Witness ==
    /\ pc = "input"
    /\ last_cmd = "model_pulled"
    /\ Len(pre_turn) = 2
    /\ messages = << >>
    /\ model # pre_model

----------------------------------------------------------------------------
(* C12: every time the loop is back at its input prompt, in streaming and  *)
(* in non-streaming mode, the transcript is a sequence of (user,           *)
(* assistant) pairs: even length, roles alternating from user, no user     *)
(* message left without a reply.                                           *)
Paired(msgs) ==
    /\ Len(msgs) % 2 = 0
    /\ \A i \in 1..Len(msgs) :
          msgs[i].role = IF i % 2 = 1 THEN "user" ELSE "assistant"

C12_OnlyCompletedExchanges ==
    pc = "input" => Paired(messages)

----------------------------------------------------------------------------
(* C13: the spinner thread and the main thread share only the turn's stop  *)
(* flag.  The flag is set on every path of the turn (request failure,      *)
(* streaming, non-streaming) before any response text is read; it is       *)
(* never cleared once set; the spinner never reads or writes the           *)
(* transcript, so the transcript after a turn is the same under every      *)
(* interleaving; and under fair scheduling the spinner loop exits after    *)
(* the flag is set.                                                        *)

\* the main thread is past the point where the three paths have set the flag
PastTheSet == pc \notin {"post_chat", "stream_enter", "nonstream", "exit"}

FlagSetBeforeAnyRead ==
    /\ (turns > 0 /\ PastTheSet) => stop_loading[turns]
    /\ failure # "none" => stop_loading[turns]
    /\ \A t \in Turns : t < turns => stop_loading[t]
    /\ (pos > 0 \/ assistant_buf # << >>) => stop_loading[turns]

FlagNeverCleared ==
    \A t \in Turns : stop_loading[t] => stop_loading'[t]

\* a step of the spinner of turn t: its position changes after its birth
SpinnerStep(t) == spin[t] = "looping" /\ spin'[t] # spin[t]

SpinnerTouchesOnlyItself ==
    \A t \in Turns :
        SpinnerStep(t) =>
            /\ UNCHANGED << pc, messages, stream, stop_loading, failure,
                            exit_code, turns, pre_turn >>
            /\ UNCHANGED cmdVars
            /\ UNCHANGED readerVars
            /\ \A u \in Turns \ {t} : spin'[u] = spin[u]
            /\ spin'[t] = "done"
            /\ stop_loading[t]

\* the text a response contributes, from what the main thread has read
ReplyText ==
    IF stream
    THEN strip(ConcatDeltas(SubSeq(body, 1, pos)))
    ELSE IF body[1].kind # "obj" THEN << >>
    ELSE IF body[1].message = "dict"
         THEN (IF body[1].content = None THEN << >> ELSE body[1].content[1])
    ELSE IF body[1].has_response
         THEN (IF body[1].response = None THEN << >> ELSE body[1].response[1])
    ELSE << >>

\* the transcript after a turn is a function of the main thread's data
TranscriptIgnoresSpinner ==
    (pc = "input" /\ last_cmd = "message") =>
        IF failure = "request"
        THEN messages = pre_turn
        ELSE LET sent == Append(pre_turn, [role |-> "user",
                                           content |-> <<"h", "i">>])
             IN  messages =
                   IF ReplyText # << >>
                   THEN Append(sent, [role |-> "assistant",
                                      content |-> ReplyText])
                   ELSE sent

C13_Safety ==
    /\ [](FlagSetBeforeAnyRead /\ TranscriptIgnoresSpinner)
    /\ [][FlagNeverCleared /\ SpinnerTouchesOnlyItself]_vars

Spinning(t) == stop_loading[t] /\ spin[t] = "looping"

(* C13 as written: once the flag of a turn is set, the spinner loop of     *)
(* that turn exits.                                                        *)
C13_SpinnerSharesOnlyFlagAndExits ==
    /\ C13_Safety
    /\ \A t \in Turns : Spinning(t) ~> (spin[t] = "done")

(* C13 amended: the flag is set on every path of the turn before any       *)
(* response text is read and never cleared, the spinner touches nothing    *)
(* but its own position and reads only its turn's flag, the transcript     *)
(* after a turn does not depend on the interleaving, and under fair        *)
(* scheduling the spinner loop exits after the flag is set unless the      *)
(* process ends first (the thread is a daemon and stops with it).          *)
C13_SpinnerExitsWhileProcessLives ==
    /\ C13_Safety
    /\ \A t \in Turns : Spinning(t) ~> (spin[t] = "done" \/ pc = "exit")

\* a turn is over with a reply appended while its spinner has still to
\* see the flag set
C13_Witness ==
    /\ pc = "input"
    /\ last_cmd = "message"
    /\ stop_loading[turns]
    /\ spin[turns] = "looping"
    /\ Len(messages) = Len(pre_turn) + 2

====
